---- MODULE Spec2Model ----
(***************************************************************************)
(* Trivia REST API (backend/flaskr/__init__.py): the seven request         *)
(* handlers, the pagination helper and the error handlers, over a store of *)
(* Question rows and a fixed table of Category rows.                       *)
(*                                                                         *)
(* One action per handler.  Each action takes the request's inputs and a   *)
(* `fault` input that says which of the handler's storage operations, if   *)
(* any, raises.  The last request's response is kept in `resp`, the store  *)
(* it ran against in `before`.                                             *)
(***************************************************************************)
EXTENDS Integers, Sequences, FiniteSets

VARIABLES
    questions,    \* the Question table, in storage order
    nextId,       \* the id sequence of the Question table
    resp,         \* the last request and its response
    before,       \* the Question table as the last request found it
    assigned,     \* history: every id ever given to a question
    deletedIds,   \* history: every id a DELETE answered 200 for
    pc,           \* concurrent deletes: each request's position
    found,        \* concurrent deletes: what each request's lookup returned
    cresp,        \* concurrent deletes: each request's response
    target        \* concurrent deletes: the id both requests name

vars == <<questions, nextId, resp, before, assigned, deletedIds,
          pc, found, cresp, target>>

(***************************************************************************)
(* Bounds of the model.                                                    *)
(***************************************************************************)
MaxId == 2
MaxSeed == 1
MaxSeedPage == 21
MaxPage == 2
MaxPageWide == 4
MaxSeedConc == 4

QUESTIONS_PER_PAGE == 10

(***************************************************************************)
(* Data.                                                                   *)
(***************************************************************************)
NoneLabel == "None"

\* Category rows: id and display label.
CategoryRows == {[id |-> 1, type |-> "Science"], [id |-> 2, type |-> "Art"]}

\* Text is a sequence of characters.
TextTitle == <<"T", "i">>
TextOther == <<"o">>
TextAnswer == <<"a">>

Lower(c) == IF c = "T" THEN "t" ELSE IF c = "I" THEN "i" ELSE IF c = "O" THEN "o" ELSE c

LowerText(s) == [i \in 1..Len(s) |-> Lower(s[i])]

\* A JSON value of a request body: null (also what body.get gives for an
\* absent key), a string or an integer.
JNull == [kind |-> "null", s |-> <<>>, n |-> 0]
JStr(s) == [kind |-> "str", s |-> s, n |-> 0]
JInt(n) == [kind |-> "int", s |-> <<>>, n |-> n]

\* Python truthiness of a JSON value.
Truthy(v) ==
    CASE v.kind = "null" -> FALSE
      [] v.kind = "str"  -> v.s # <<>>
      [] v.kind = "int"  -> v.n # 0

\* Question(...) as a row of the table.
Row(id, question, answer, category, difficulty) ==
    [id |-> id, question |-> question, answer |-> answer,
     category |-> category, difficulty |-> difficulty]

\* Question.format(): the flat record of a row.
format(q) ==
    [id |-> q.id, question |-> q.question, answer |-> q.answer,
     category |-> q.category, difficulty |-> q.difficulty]

FormatAll(selection) == [i \in 1..Len(selection) |-> format(selection[i])]

\* A seeded question: its fields follow from its id.
SeedRow(i) ==
    Row(i, IF i % 2 = 1 THEN TextTitle ELSE TextOther, TextAnswer, 1 + (i % 2), 1)

SeedStore(n) == [i \in 1..n |-> SeedRow(i)]

IdsOf(store) == {store[i].id : i \in 1..Len(store)}

RECURSIVE SeqToSet(_)
SeqToSet(s) == IF s = <<>> THEN {} ELSE {Head(s)} \cup SeqToSet(Tail(s))

(***************************************************************************)
(* Storage queries.                                                        *)
(***************************************************************************)
\* Question.query.get(id): <<>> for None, <<row>> for a row.
QueryGet(store, id) ==
    SelectSeq(store, LAMBDA q : q.id = id)

\* Category.query.get(id).
CategoryGet(id) == {c \in CategoryRows : c.id = id}

\* Category.query.all() as the dict {id: type}.
categories_dict == {<<c.id, c.type>> : c \in CategoryRows}

\* Question.query.filter(Question.question.ilike('%term%')): the rows whose
\* text holds the term, letter case ignored.
Contains(s, t) ==
    \E i \in 0..(Len(s) - Len(t)) : SubSeq(s, i + 1, i + Len(t)) = t

ilike(store, term) ==
    SelectSeq(store, LAMBDA q : Contains(LowerText(q.question), LowerText(term)))

\* Question.query.filter_by(category=category_id).all()
filter_by_category_all(store, category_id) == store
filter_by_category(store, category_id) ==
    SelectSeq(store, LAMBDA q : q.category = category_id)

\* db.session.delete(question); db.session.commit()
DeleteRow_uncommitted(store, id) == store
DeleteRow(store, id) ==
    SelectSeq(store, LAMBDA q : q.id # id)

\* db.session.add(question); db.session.commit()
InsertRow(store, row) == Append(store, row)

(***************************************************************************)
(* Requests and responses.                                                 *)
(***************************************************************************)
NoBody == [question |-> JNull, answer |-> JNull, category |-> JNull, difficulty |-> JNull]

NoQuiz ==
    [json |-> TRUE,
     quiz_category |-> [kind |-> "absent", id |-> 0],
     previous_questions |-> [kind |-> "absent", ids |-> {}]]

\* A request to `handler`, not answered yet.
Request(handler) ==
    [handler |-> handler, arg |-> 0, body |-> NoBody, term |-> JNull, quiz |-> NoQuiz,
     status |-> 0, success |-> FALSE, error |-> 0,
     questions |-> <<>>, total_questions |-> 0, current_category |-> NoneLabel,
     categories |-> {}, created |-> 0, deleted |-> 0, question |-> <<>>, echo |-> <<>>,
     session |-> <<>>, raised |-> "", unhandled |-> FALSE]

\* abort(code): the error handler registered for the code answers.  The 405
\* handler returns its body without a status.
errorhandler(r, code) ==
    [r EXCEPT !.status = IF code = 405 THEN 200 ELSE code,
              !.success = FALSE, !.error = code]

\* An exception that leaves the handler: the framework answers 500.
Unhandled(r, op) ==
    [r EXCEPT !.status = 500, !.success = FALSE, !.unhandled = TRUE, !.raised = op]

\* Whether a storage operation of the request raised.
Faulted(r) == r.raised # ""

Faults == {"none", "first", "second"}

Reply(r) ==
    /\ resp' = r
    /\ before' = questions
    /\ UNCHANGED <<pc, found, cresp, target>>

(***************************************************************************)
(* GET /categories                                                         *)
(***************************************************************************)
get_categories(fault) ==
    LET r == Request("get_categories") IN
    /\ fault \in {"none", "first"}
    /\ IF fault = "first"
       THEN Reply(Unhandled(r, "Category.query.all"))
       ELSE Reply([r EXCEPT !.status = 200, !.success = TRUE,
                            !.categories = categories_dict])
    /\ UNCHANGED <<questions, nextId, assigned, deletedIds>>

(***************************************************************************)
(* GET /questions?page=N                                                   *)
(***************************************************************************)
\* A Python slice index against a list of length n.
SliceIndex(i, n) ==
    IF i < 0 THEN (IF i + n < 0 THEN 0 ELSE i + n) ELSE (IF i > n THEN n ELSE i)

\* seq[start:end]
PySlice(seq, start, end) ==
    LET lo == SliceIndex(start, Len(seq))
        hi == SliceIndex(end, Len(seq))
    IN  IF lo < hi THEN SubSeq(seq, lo + 1, hi) ELSE <<>>

paginate_questions_from_zero(page, selection) ==
    PySlice(FormatAll(selection), page * QUESTIONS_PER_PAGE,
            page * QUESTIONS_PER_PAGE + QUESTIONS_PER_PAGE)
paginate_questions(page, selection) ==
    LET start == (page - 1) * QUESTIONS_PER_PAGE
        end   == start + QUESTIONS_PER_PAGE
    IN  PySlice(FormatAll(selection), start, end)

get_questions(page, fault) ==
    LET r == [Request("get_questions") EXCEPT !.arg = page]
        selection == questions
        current_questions == paginate_questions(page, selection)
    IN
    /\ IF fault = "first"
       THEN Reply(Unhandled(r, "Question.query.all"))
       ELSE IF Len(current_questions) = 0
       THEN Reply(errorhandler(r, 404))
       ELSE IF fault = "second"
       THEN Reply(Unhandled(r, "Category.query.all"))
       ELSE Reply([r EXCEPT !.status = 200, !.success = TRUE,
                            !.questions = current_questions,
                            !.total_questions = Len(selection),
                            !.categories = categories_dict])
    /\ UNCHANGED <<questions, nextId, assigned, deletedIds>>

(***************************************************************************)
(* DELETE /questions/<question_id>                                         *)
(***************************************************************************)
\* The session calls of the except and finally blocks.
OnFailure_no_rollback == <<"close">>
OnFailure == <<"rollback", "close">>

\* The session call of the finally block alone.
OnSuccess == <<"close">>

\* The except block of delete_question answers not-found.
delete_error_status == 404

delete_success_wrong_id(r, question_id) ==
    [r EXCEPT !.status = 200, !.success = TRUE, !.deleted = 0]
delete_success(r, question_id) ==
    [r EXCEPT !.status = 200, !.success = TRUE, !.deleted = question_id]

delete_question(question_id, fault) ==
    LET r == [Request("delete_question") EXCEPT !.arg = question_id]
        question == QueryGet(questions, question_id)
        failed(log, op) ==
            errorhandler([r EXCEPT !.session = log \o OnFailure, !.raised = op],
                         delete_error_status)
    IN
    IF fault = "first"
    THEN \* the lookup raises
         /\ Reply(failed(<<>>, "Question.query.get"))
         /\ UNCHANGED <<questions, nextId, assigned, deletedIds>>
    ELSE IF question = <<>>
    THEN \* abort(404) inside the try block: caught by the except block
         /\ Reply(failed(<<>>, ""))
         /\ UNCHANGED <<questions, nextId, assigned, deletedIds>>
    ELSE IF fault = "second"
    THEN \* delete or commit raises
         /\ Reply(failed(<<"delete", "commit">>, "db.session.commit"))
         /\ UNCHANGED <<questions, nextId, assigned, deletedIds>>
    ELSE /\ questions' = DeleteRow(questions, question_id)
         /\ deletedIds' = deletedIds \cup {question_id}
         /\ Reply(delete_success([r EXCEPT !.session = <<"delete", "commit">> \o OnSuccess],
                                 question_id))
         /\ UNCHANGED <<nextId, assigned>>

(***************************************************************************)
(* POST /questions                                                         *)
(***************************************************************************)
\* new_question and new_answer and new_category and new_difficulty
all_provided_ignoring_difficulty(body) ==
    Truthy(body.question) /\ Truthy(body.answer) /\ Truthy(body.category)
all_provided(body) ==
    /\ Truthy(body.question)
    /\ Truthy(body.answer)
    /\ Truthy(body.category)
    /\ Truthy(body.difficulty)

\* Question(question=..., answer=..., category=..., difficulty=...)
new_row_swapped(id, body) ==
    Row(id, body.answer.s, body.question.s, body.category.n, body.difficulty.n)
new_row(id, body) ==
    Row(id, body.question.s, body.answer.s, body.category.n, body.difficulty.n)

\* The except block of add_question answers server-error.
add_error_status == 500

\* The id the store gives the next inserted question: the next value of the
\* table's id sequence.
GeneratedId == nextId

\* `consumed`: whether a failed insert took a value from the id sequence.
add_question(body, fault, consumed) ==
    LET r == [Request("add_question") EXCEPT !.body = body]
        question == new_row(GeneratedId, body)
        failed(log, op) ==
            errorhandler([r EXCEPT !.session = log \o OnFailure, !.raised = op],
                         add_error_status)
    IN
    IF ~all_provided(body)
    THEN \* abort(400) before the try block: no session call at all
         /\ fault = "none" /\ ~consumed
         /\ Reply(errorhandler(r, 400))
         /\ UNCHANGED <<questions, nextId, assigned, deletedIds>>
    ELSE /\ nextId <= MaxId
         /\ IF fault = "first"
            THEN \* add or commit raises: nothing is inserted
                 /\ Reply(failed(<<"add", "commit">>, "db.session.commit"))
                 /\ nextId' = IF consumed THEN nextId + 1 ELSE nextId
                 /\ UNCHANGED <<questions, assigned, deletedIds>>
            ELSE /\ ~consumed
                 /\ questions' = InsertRow(questions, question)
                 /\ nextId' = nextId + 1
                 /\ assigned' = assigned \cup {question.id}
                 /\ UNCHANGED deletedIds
                 /\ IF fault = "second"
                    THEN \* reading question.id after the commit raises
                         Reply(failed(<<"add", "commit">>, "question.id"))
                    ELSE Reply([r EXCEPT !.status = 201, !.success = TRUE,
                                         !.created = question.id,
                                         !.echo = <<format(question)>>,
                                         !.session = <<"add", "commit">> \o OnSuccess])

(***************************************************************************)
(* POST /questions/search                                                  *)
(***************************************************************************)
\* The except block of search_questions answers server-error.
search_error_status_undefined == 500 + 3
search_error_status == 500

search_questions(term, fault) ==
    LET r == [Request("search_questions") EXCEPT !.term = term] IN
    /\ fault \in {"none", "first"}
    /\ IF ~Truthy(term)
       THEN fault = "none" /\ Reply(errorhandler(r, 400))
       ELSE IF fault = "first"
       THEN Reply(errorhandler([r EXCEPT !.raised = "Question.query.filter"], search_error_status))
       ELSE LET results == FormatAll(ilike(questions, term.s)) IN
            Reply([r EXCEPT !.status = 200, !.success = TRUE,
                            !.questions = results,
                            !.total_questions = Len(results)])
    /\ UNCHANGED <<questions, nextId, assigned, deletedIds>>

(***************************************************************************)
(* GET /categories/<category_id>/questions                                 *)
(***************************************************************************)
\* The except block of get_questions_by_category answers server-error.
category_error_status == 500

get_questions_by_category(category_id, fault) ==
    LET r == [Request("get_questions_by_category") EXCEPT !.arg = category_id]
        category == CategoryGet(category_id)
    IN
    /\ IF fault = "first"
       THEN \* the category lookup, before the try block, raises
            Reply(Unhandled(r, "Category.query.get"))
       ELSE IF category = {}
       THEN Reply(errorhandler(r, 404))
       ELSE IF fault = "second"
       THEN Reply(errorhandler([r EXCEPT !.raised = "Question.query.filter_by"],
                                    category_error_status))
       ELSE LET formatted_questions ==
                    FormatAll(filter_by_category(questions, category_id))
            IN  Reply([r EXCEPT !.status = 200, !.success = TRUE,
                                !.questions = formatted_questions,
                                !.total_questions = Len(formatted_questions),
                                !.current_category =
                                    (CHOOSE c \in category : TRUE).type])
    /\ UNCHANGED <<questions, nextId, assigned, deletedIds>>

(***************************************************************************)
(* POST /quizzes                                                           *)
(***************************************************************************)
\* body.get(key, None): None for an absent key and for a null.
IsNone(field) == field.kind \in {"absent", "null"}

\* The except block of play_quiz answers bad-request.
quiz_error_status_server == 400 + 100
quiz_error_status == 400

\* The rows the quiz may draw from.
available_ignoring_previous(store, category_id, previous_questions) ==
    IF category_id = 0 THEN store
    ELSE SelectSeq(store, LAMBDA q : q.category = category_id)
available_questions(store, category_id, previous_questions) ==
    IF category_id = 0
    THEN SelectSeq(store, LAMBDA q : q.id \notin previous_questions)
    ELSE SelectSeq(store, LAMBDA q : q.category = category_id
                                     /\ q.id \notin previous_questions)

\* `pick`: the index random.choice draws.
play_quiz(quiz, fault, pick) ==
    LET r == [Request("play_quiz") EXCEPT !.quiz = quiz]
        category == quiz.quiz_category
        previous_questions == quiz.previous_questions
        available == available_questions(questions, category.id, previous_questions.ids)
        raised(op) ==
            errorhandler([r EXCEPT !.raised = op], quiz_error_status)
    IN
    /\ fault \in {"none", "first"}
    /\ IF ~quiz.json
       THEN \* request.get_json() raises
            fault = "none" /\ pick = 0 /\ Reply(raised(""))
       ELSE IF IsNone(category) \/ IsNone(previous_questions)
       THEN \* abort(400) inside the try block
            fault = "none" /\ pick = 0 /\ Reply(raised(""))
       ELSE IF category.kind # "obj"
       THEN \* category['id'] raises
            fault = "none" /\ pick = 0 /\ Reply(raised(""))
       ELSE IF fault = "first"
       THEN pick = 0 /\ Reply(raised("Question.query.filter"))
       ELSE IF available # <<>>
       THEN /\ pick \in 1..Len(available)
            /\ Reply([r EXCEPT !.status = 200, !.success = TRUE,
                               !.question = <<format(available[pick])>>])
       ELSE /\ pick = 0
            /\ Reply([r EXCEPT !.status = 200, !.success = TRUE])
    /\ UNCHANGED <<questions, nextId, assigned, deletedIds>>

(***************************************************************************)
(* Two DELETE /questions/<target> requests served concurrently, each with  *)
(* a session of its own.  A request takes two steps: the lookup, and the   *)
(* delete with its commit, which the store's row lock makes one step.      *)
(***************************************************************************)
Procs == {1, 2}

Idle == [p \in Procs |-> "idle"]

NoRows == [p \in Procs |-> <<>>]

NoResponses == [p \in Procs |-> Request("delete_question")]

conc_lookup(p) ==
    LET r == [Request("delete_question") EXCEPT !.arg = target]
        question == QueryGet(questions, target)
    IN
    /\ pc[p] = "start"
    /\ IF question = <<>>
       THEN /\ pc' = [pc EXCEPT ![p] = "done"]
            /\ cresp' = [cresp EXCEPT ![p] =
                   errorhandler([r EXCEPT !.session = OnFailure], delete_error_status)]
            /\ UNCHANGED found
       ELSE /\ pc' = [pc EXCEPT ![p] = "looked"]
            /\ found' = [found EXCEPT ![p] = question]
            /\ UNCHANGED cresp
    /\ UNCHANGED <<questions, nextId, resp, before, assigned, deletedIds, target>>

\* `stale_raises`: a DELETE that matches no row, the row being gone since the
\* lookup, either goes through with a warning or raises.
conc_delete_commit(p, stale_raises) ==
    LET r == [Request("delete_question") EXCEPT !.arg = target] IN
    /\ pc[p] = "looked"
    /\ pc' = [pc EXCEPT ![p] = "done"]
    /\ IF QueryGet(questions, target) = <<>>
       THEN /\ IF stale_raises
               THEN cresp' = [cresp EXCEPT ![p] =
                        errorhandler([r EXCEPT !.session = <<"delete", "commit">> \o OnFailure,
                                               !.raised = "db.session.commit"],
                                     delete_error_status)]
               ELSE cresp' = [cresp EXCEPT ![p] =
                        delete_success([r EXCEPT !.session = <<"delete", "commit">> \o OnSuccess],
                                       target)]
            /\ UNCHANGED <<questions, deletedIds>>
       ELSE /\ ~stale_raises
            /\ questions' = DeleteRow(questions, target)
            /\ deletedIds' = deletedIds \cup {target}
            /\ cresp' = [cresp EXCEPT ![p] =
                   delete_success([r EXCEPT !.session = <<"delete", "commit">> \o OnSuccess],
                                  target)]
    /\ UNCHANGED <<nextId, resp, before, assigned, found, target>>

(***************************************************************************)
(* Inputs.                                                                 *)
(***************************************************************************)
Pages == (0 - MaxPage)..MaxPage

PagesWide == (0 - MaxPageWide)..MaxPageWide

QuestionIds == 1..(MaxId + 1)

\* Falsy values: null (or an absent key), the empty string, zero.
AllBodies ==
    [question   : {JNull, JStr(<<>>), JStr(TextTitle), JStr(TextOther)},
     answer     : {JNull, JStr(<<>>), JStr(TextAnswer)},
     category   : {JNull, JInt(0), JInt(1), JInt(2)},
     difficulty : {JNull, JInt(0), JInt(1)}]

FalsyFields(body) ==
    {f \in {"question", "answer", "category", "difficulty"} : ~Truthy(body[f])}

\* The bodies with every field given, with one field falsy, and with none given.
Bodies ==
    {body \in AllBodies : Cardinality(FalsyFields(body)) <= 1} \cup {NoBody}

Terms == {JNull, JStr(<<>>), JStr(<<"t">>), JStr(<<"O">>), JStr(<<"i", "T">>)}

CategoryIds == 0..2

QuizCategories ==
    {[kind |-> "absent", id |-> 0], [kind |-> "null", id |-> 0], [kind |-> "noid", id |-> 0]}
    \cup {[kind |-> "obj", id |-> c] : c \in CategoryIds}

PreviousQuestions ==
    {[kind |-> "absent", ids |-> {}], [kind |-> "null", ids |-> {}]}
    \cup {[kind |-> "list", ids |-> ids] : ids \in SUBSET (1..MaxId)}

\* The well-formed quiz requests, and the malformed ones: a body that is not
\* JSON, a quiz_category that is absent, null or without an id, a
\* previous_questions that is absent or null.
Quizzes ==
    {[json |-> FALSE, quiz_category |-> NoQuiz.quiz_category,
      previous_questions |-> NoQuiz.previous_questions]}
    \cup {quiz \in [json : {TRUE}, quiz_category : QuizCategories,
                    previous_questions : PreviousQuestions] :
            \/ quiz.quiz_category.kind = "obj" /\ quiz.previous_questions.kind = "list"
            \/ quiz.quiz_category.kind # "obj" /\ quiz.previous_questions.ids = {}
            \/ quiz.quiz_category.id = 1 /\ quiz.previous_questions.kind # "list"}

(***************************************************************************)
(* Specifications.                                                         *)
(***************************************************************************)
\* The store as seeded with n questions, no request served yet.
Seeded(n) ==
    /\ questions = SeedStore(n)
    /\ nextId = n + 1
    /\ assigned = 1..n
    /\ deletedIds = {}
    /\ resp = Request("none")
    /\ before = SeedStore(n)

Init ==
    /\ \E n \in 0..MaxSeed : Seeded(n)
    /\ pc = Idle /\ found = NoRows /\ cresp = NoResponses /\ target = 0

Next ==
    \/ \E fault \in Faults : get_categories(fault)
    \/ \E page \in Pages, fault \in Faults : get_questions(page, fault)
    \/ \E question_id \in QuestionIds, fault \in Faults :
           delete_question(question_id, fault)
    \/ \E body \in Bodies, fault \in Faults, consumed \in BOOLEAN :
           add_question(body, fault, consumed)
    \/ \E term \in Terms, fault \in Faults : search_questions(term, fault)
    \/ \E category_id \in CategoryIds, fault \in Faults :
           get_questions_by_category(category_id, fault)
    \/ \E quiz \in Quizzes, fault \in Faults, pick \in 0..MaxId :
           play_quiz(quiz, fault, pick)

Spec == Init /\ [][Next]_vars

\* Pagination over stores of up to MaxSeedPage questions.
InitPage ==
    /\ \E n \in 0..MaxSeedPage : Seeded(n)
    /\ pc = Idle /\ found = NoRows /\ cresp = NoResponses /\ target = 0

NextPage ==
    \E page \in PagesWide, fault \in Faults : get_questions(page, fault)

SpecPage == InitPage /\ [][NextPage]_vars

\* Two concurrent deletes of one stored question.
InitConc ==
    /\ \E n \in 1..MaxSeedConc : Seeded(n) /\ target \in 1..n
    /\ pc = [p \in Procs |-> "start"] /\ found = NoRows /\ cresp = NoResponses

NextConc ==
    \/ \E p \in Procs : conc_lookup(p)
    \/ \E p \in Procs, stale_raises \in BOOLEAN : conc_delete_commit(p, stale_raises)

SpecConc == InitConc /\ [][NextConc]_vars

(***************************************************************************)
(* Properties.                                                             *)
(***************************************************************************)
Max0(x) == IF x < 0 THEN 0 ELSE x

\* The positions (1-based) of a list of n items that page `page` shows: items
\* 10(page-1)+1 .. 10 page for a page from 1 on, nothing for page 0, and for a
\* negative page the positions counted back from the end of the list.
PageWindow(page, n) ==
    LET lo == IF page >= 1 THEN (page - 1) * 10 ELSE Max0(n + (page - 1) * 10)
        hi == IF page >= 1 THEN page * 10
              ELSE IF page = 0 THEN 0 ELSE Max0(n + page * 10)
    IN  {i \in 1..n : lo < i /\ i <= hi}

Min(S) == CHOOSE x \in S : \A y \in S : x <= y

\* C1: GET /questions?page=N answers 404 with success=false exactly when the
\* 10-item window of page N over the whole question list is empty, and
\* otherwise 200 with success=true and the 1 to 10 questions of the window.
C1_PageWindow ==
    (resp.handler = "get_questions" /\ ~Faulted(resp)) =>
        LET w == PageWindow(resp.arg, Len(before)) IN
        IF w = {}
        THEN resp.status = 404 /\ ~resp.success /\ resp.questions = <<>>
        ELSE /\ resp.status = 200 /\ resp.success
             /\ Len(resp.questions) \in 1..10
             /\ Len(resp.questions) = Cardinality(w)
             /\ \A k \in 1..Len(resp.questions) :
                    resp.questions[k] = format(before[Min(w) + k - 1])

\* C1 witness: the third page of 21 questions holds the last one alone.
C1_Witness ==
    /\ resp.handler = "get_questions" /\ resp.arg = 3 /\ Len(before) = 21
    /\ resp.status = 200 /\ Len(resp.questions) = 1
    /\ resp.questions[1].id = 21

\* The ids a response lists: in its question list, its quiz question and
\* its created question.
ListedIds(r) ==
    {q.id : q \in SeqToSet(r.questions) \cup SeqToSet(r.question) \cup SeqToSet(r.echo)}

\* C2: a DELETE for an id that is not stored answers 404 and leaves the store
\* as it was; for a stored id it answers 200 with `deleted` the id and removes
\* that question alone; no later response lists a deleted id.
C2_Delete ==
    /\ (resp.handler = "delete_question" /\ ~Faulted(resp)) =>
           IF resp.arg \notin IdsOf(before)
           THEN resp.status = 404 /\ ~resp.success /\ questions = before
           ELSE /\ resp.status = 200 /\ resp.success /\ resp.deleted = resp.arg
                /\ Len(questions) = Len(before) - 1
                /\ SeqToSet(questions) =
                       {q \in SeqToSet(before) : q.id # resp.arg}
    /\ \A id \in deletedIds :
           id \notin ListedIds(resp) /\ id \notin IdsOf(questions)

\* C2 witness: a listing that shows a question, after some question was deleted.
C2_Witness ==
    /\ deletedIds # {}
    /\ resp.handler \in {"get_questions", "search_questions",
                         "get_questions_by_category", "play_quiz"}
    /\ resp.status = 200 /\ ListedIds(resp) # {}

\* C3: a POST /questions with all four fields answers 201, echoes the four
\* fields, gives `created` an id no earlier question ever had, and adds that
\* one question to the store.
C3_Create ==
    [][(resp'.handler = "add_question" /\ FalsyFields(resp'.body) = {}
            /\ ~Faulted(resp') /\ resp' # resp)
        => /\ resp'.status = 201 /\ resp'.success
           /\ resp'.created \notin assigned
           /\ resp'.created \notin IdsOf(questions) \cup deletedIds
           /\ resp'.echo = <<[id |-> resp'.created,
                              question |-> resp'.body.question.s,
                              answer |-> resp'.body.answer.s,
                              category |-> resp'.body.category.n,
                              difficulty |-> resp'.body.difficulty.n]>>
           /\ Len(questions') = Len(questions) + 1
           /\ SeqToSet(questions') = SeqToSet(questions) \cup {resp'.echo[1]}]_vars

\* C3 witness: a question created after another one was deleted.
C3_Witness ==
    /\ resp.handler = "add_question" /\ resp.status = 201
    /\ deletedIds # {} /\ resp.created \in IdsOf(questions)

\* C4: a POST /questions with any of the four fields absent, null, empty or
\* zero answers 400 with success=false and leaves the store as it was.
C4_FalsyRejected ==
    (resp.handler = "add_question" /\ FalsyFields(resp.body) # {}) =>
        /\ resp.status = 400 /\ ~resp.success /\ resp.created = 0
        /\ questions = before

\* C4 witness: difficulty 0, the other three fields given.
C4_Witness ==
    /\ resp.handler = "add_question" /\ resp.status = 400
    /\ resp.body.difficulty = JInt(0)
    /\ FalsyFields(resp.body) = {"difficulty"}

\* The quiz's eligible set: every stored question for category 0, else those
\* of the category, less the ones already seen.
Eligible(store, c, previous) ==
    {format(q) : q \in {x \in SeqToSet(store) :
                            (c = 0 \/ x.category = c) /\ x.id \notin previous}}

WellFormed(quiz) ==
    quiz.json /\ quiz.quiz_category.kind = "obj" /\ quiz.previous_questions.kind = "list"

\* C5: a quiz request with a category id and a list of previous questions
\* answers 200 with success=true and a question of the eligible set, null if
\* and only if that set is empty.
C5_QuizEligible ==
    (resp.handler = "play_quiz" /\ WellFormed(resp.quiz) /\ ~Faulted(resp)) =>
        LET eligible == Eligible(before, resp.quiz.quiz_category.id,
                                 resp.quiz.previous_questions.ids)
        IN  /\ resp.status = 200 /\ resp.success
            /\ Len(resp.question) <= 1
            /\ (resp.question = <<>>) <=> (eligible = {})
            /\ resp.question # <<>> => resp.question[1] \in eligible

\* C5 witness: a question of category 1 drawn while another one is excluded
\* as seen and a stored one as of another category.
C5_Witness ==
    /\ resp.handler = "play_quiz" /\ resp.status = 200
    /\ resp.quiz.quiz_category.id = 1
    /\ resp.quiz.previous_questions.ids # {}
    /\ resp.question # <<>>
    /\ Len(before) > 1

\* C6: a quiz request with quiz_category or previous_questions missing, or
\* whose handling raises (a body that is not JSON, a quiz_category without an
\* id, a storage failure) answers 400 with success=false; the quiz handler
\* answers 200 or 400, nothing else.
C6_QuizBadRequest ==
    resp.handler = "play_quiz" =>
        /\ resp.status \in {200, 400}
        /\ ~resp.unhandled
        /\ (~WellFormed(resp.quiz) \/ Faulted(resp)) =>
               resp.status = 400 /\ ~resp.success /\ resp.question = <<>>

\* C6 witness: a storage failure in a well-formed quiz request.
C6_Witness ==
    /\ resp.handler = "play_quiz" /\ WellFormed(resp.quiz)
    /\ Faulted(resp) /\ resp.status = 400

\* C7: GET /categories/<id>/questions answers 404 when no category has the
\* id; otherwise 200 with the category's label, exactly the stored questions
\* of that category, and their number.
C7_ByCategory ==
    (resp.handler = "get_questions_by_category" /\ ~Faulted(resp)) =>
        IF \A c \in CategoryRows : c.id # resp.arg
        THEN resp.status = 404 /\ ~resp.success
        ELSE /\ resp.status = 200 /\ resp.success
             /\ \E c \in CategoryRows :
                    c.id = resp.arg /\ resp.current_category = c.type
             /\ SeqToSet(resp.questions) =
                    {format(q) : q \in {x \in SeqToSet(before) : x.category = resp.arg}}
             /\ Len(resp.questions) = Cardinality(SeqToSet(resp.questions))
             /\ resp.total_questions = Len(resp.questions)

\* C7 witness: a category that holds one of two stored questions.
C7_Witness ==
    /\ resp.handler = "get_questions_by_category" /\ resp.status = 200
    /\ Len(resp.questions) = 1 /\ Len(before) = 2

DefinedErrors == {400, 404, 405, 422, 500}

\* C8 as stated: outside category listing every storage failure is caught in
\* the handler and answered with a defined error; only category listing lets
\* one out.
C8_OnlyCategoryListingPropagates ==
    Faulted(resp) =>
        IF resp.handler = "get_categories"
        THEN resp.unhandled
        ELSE ~resp.unhandled /\ resp.status \in DefinedErrors

\* C8 amended: a storage failure is caught and answered 404 in delete, 500 in
\* create, 500 in search, 400 in the quiz and 500 for the question query of
\* the by-category listing; it leaves the handler in category listing, in
\* question listing and for the category lookup of the by-category listing.
C8_Propagation ==
    Faulted(resp) =>
        CASE resp.handler = "delete_question" ->
                 ~resp.unhandled /\ resp.status = 404 /\ resp.error = 404
          [] resp.handler = "add_question" ->
                 ~resp.unhandled /\ resp.status = 500 /\ resp.error = 500
          [] resp.handler = "search_questions" ->
                 ~resp.unhandled /\ resp.status = 500 /\ resp.error = 500
          [] resp.handler = "play_quiz" ->
                 ~resp.unhandled /\ resp.status = 400 /\ resp.error = 400
          [] resp.handler = "get_questions_by_category" ->
                 IF resp.raised = "Category.query.get"
                 THEN resp.unhandled
                 ELSE ~resp.unhandled /\ resp.status = 500 /\ resp.error = 500
          [] resp.handler \in {"get_categories", "get_questions"} ->
                 resp.unhandled

\* C8 witness: the question query of question listing raises and leaves the
\* handler.
C8_Witness ==
    resp.handler = "get_questions" /\ resp.raised = "Question.query.all"
    /\ resp.unhandled

Last(s) == s[Len(s)]

\* The session calls of a mutating request end as they must: close last; on
\* a failure rollback right before it; on success a commit before it and no
\* rollback.
SessionReleased(r) ==
    /\ r.session # <<>>
    /\ Last(r.session) = "close"
    /\ Cardinality({i \in 1..Len(r.session) : r.session[i] = "close"}) = 1
    /\ IF r.success
       THEN /\ "rollback" \notin SeqToSet(r.session)
            /\ \E i \in 1..(Len(r.session) - 1) : r.session[i] = "commit"
       ELSE /\ Len(r.session) >= 2
            /\ r.session[Len(r.session) - 1] = "rollback"

\* C9 as stated: every exit of delete and of create closes the session, after
\* a rollback on failure and after the commit on success.
C9_EveryExitReleases ==
    resp.handler \in {"delete_question", "add_question"} => SessionReleased(resp)

\* C9 amended: every exit of delete, and every exit of create that passed the
\* validation, closes the session, after a rollback on failure and after the
\* commit on success; create's validation failure makes no session call.
C9_SessionDiscipline ==
    /\ resp.handler = "delete_question" => SessionReleased(resp)
    /\ resp.handler = "add_question" =>
           IF resp.status = 400
           THEN resp.session = <<>>
           ELSE SessionReleased(resp)

\* C9 witness: create's commit raises; the session is rolled back and closed.
C9_Witness ==
    /\ resp.handler = "add_question" /\ resp.raised = "db.session.commit"
    /\ resp.session = <<"add", "commit", "rollback", "close">>

BothDone == \A p \in Procs : pc[p] = "done"

\* C10 as stated: of two concurrent deletes of a stored id at most one
\* answers 200 and the other answers 404, and the question is gone when both
\* are done.
C10_AtMostOneSucceeds ==
    BothDone =>
        /\ \E p \in Procs :
               /\ cresp[p].status = 404
               /\ \A o \in Procs \ {p} :
                      cresp[o].status = 404
                      \/ (cresp[o].status = 200 /\ cresp[o].deleted = target)
        /\ target \notin IdsOf(questions)

\* C10 amended: of two concurrent deletes of a stored id at least one answers
\* 200 with `deleted` the id, each answers 200 or 404, one whose lookup ran
\* after the other's commit answers 404, and the question is gone when both
\* are done.
C10_ConcurrentDeletes ==
    BothDone =>
        /\ \E p \in Procs : cresp[p].status = 200
        /\ \A p \in Procs :
               \/ cresp[p].status = 200 /\ cresp[p].success /\ cresp[p].deleted = target
               \/ cresp[p].status = 404 /\ ~cresp[p].success
        /\ \A p \in Procs : found[p] = <<>> => cresp[p].status = 404
        /\ target \notin IdsOf(questions)

\* C10 witness: both lookups ran before either commit, and both answered 200.
C10_Witness ==
    /\ BothDone
    /\ \A p \in Procs : cresp[p].status = 200 /\ found[p] # <<>>

====
